---- MODULE Spec2Model ----
(***************************************************************************)
(* Slot lease manager of the Smart_parking backend (src/application.py).   *)
(*                                                                         *)
(* The store (MongoDB collections parking_slots and bookings) is shared by *)
(* concurrently running Flask request handlers.  Every store call          *)
(* (find, find_one_and_update, update_one, insert_one) is one atomic step; *)
(* a handler is a sequence of such steps and may be interleaved with the   *)
(* steps of other handlers and with the passing of time.                   *)
(*                                                                         *)
(* Time is counted in clock ticks, TicksPerSec ticks to the second, so     *)
(* that instants which are not a whole number of seconds apart exist.      *)
(* Timestamps read back from the store are taken to be comparable with     *)
(* datetime.now(timezone.utc), and a tick is a whole number of             *)
(* milliseconds, the resolution of a stored date.                          *)
(***************************************************************************)
EXTENDS Integers, Sequences, FiniteSets, TLC

\* ---------------------------------------------------------------- bounds
TicksPerSec  == 2      \* clock resolution of the model
Window       == 1      \* the clock is observed within Window ticks of a lease boundary
MaxEpoch     == 1      \* ... of the boundaries 0, LeaseTicks, .., MaxEpoch * LeaseTicks
PriorLeases  == 4      \* leases the pool already holds when the model starts
NumReservers == 2      \* reserve_slot requests served, each by its own handler
NumReaders   == 2      \* slots_status / reserve-signal handlers
ConcReaders  == 1      \* readers that run concurrently with the reservers in Spec
HwReservers  == 1      \* reservers that run concurrently with the sensor in SpecHw
MaxStart     == 2      \* SpecCountdown: the lease starts at a tick of 0..MaxStart
QuerySlack   == 3      \* ... and is read up to LeaseTicks + QuerySlack ticks later
MaxLedger    == 22     \* SpecHistory: the ledger holds up to MaxLedger bookings
MaxOther     == 4      \* ... up to MaxOther of them of the second staff member
MaxTwist     == 2      \* ... inserted against the order of now, in it, or with equal now

\* ------------------------------------------------------ program constants
NumSlots     == 5      \* range(1, 6)
LeaseMinutes == 10     \* timedelta(minutes=10)
LeaseSeconds == LeaseMinutes * 60
LeaseTicks   == LeaseSeconds * TicksPerSec
PageSize     == 20     \* .limit(20)

Null   == "null"       \* None, or a field that is absent from a document
NoTime == -1           \* None / absent in a field that holds a timestamp

AllSlotNames == <<"S1", "S2", "S3", "S4", "S5", "S6", "S7", "S8", "S9">>
\* natural (insertion) order of the collection, also its order by slot_id
SlotOrder == SubSeq(AllSlotNames, 1, NumSlots)
SlotIds   == {SlotOrder[i] : i \in 1..NumSlots}

\* users_collection: documents written by register(); never changed by the
\* handlers modelled here.  A student document carries staff_id None.
Users ==
  { [staff_id |-> "cse101", user_type |-> "staff", is_active |-> TRUE,
     email |-> "a@cse.edu", department |-> "CSE"],
    [staff_id |-> "ece101", user_type |-> "staff", is_active |-> TRUE,
     email |-> "b@ece.edu", department |-> "ECE"],
    [staff_id |-> Null, user_type |-> "student", is_active |-> TRUE,
     email |-> "s@stu.edu", department |-> "CSE"] }

NoUser == [staff_id |-> Null, user_type |-> Null, is_active |-> FALSE,
           email |-> Null, department |-> Null]

\* staff_id values a reserve request may carry (Null: key missing)
RequestStaffIds == {"cse101", "ece101", "stu1", Null}
\* slot_id values a sensor report may carry (Null: key missing)
RequestSlotIds  == {"S1", "S9", "", Null}

\* staff_id values the path of a my-bookings request may carry
HistoryStaffIds == {"cse101", "ece101", "stu1"}

RsvProcs == 1..NumReservers
StProcs  == 1..NumReaders

VARIABLES slots, bookings, now, rsv, st, sensorResp, hist

vars == <<slots, bookings, now, rsv, st, sensorResp, hist>>

\* ------------------------------------------------------------ the clock
Grid == {0} \cup {e * LeaseTicks + w : e \in 1..MaxEpoch, w \in (0 - Window)..Window}

\* ------------------------------------------------------------ documents
FreshSlot ==
  [available |-> TRUE, reserved_by |-> Null, staff_email |-> Null,
   department |-> Null, reservation_time |-> NoTime, last_updated |-> NoTime,
   hardware_occupied |-> FALSE, last_sensor_update |-> NoTime]

init_slots == [id \in SlotIds |-> FreshSlot]

\* a staff lookup by staff_id alone
FindStaff_anyType(staff_id) ==
  LET found == {u \in Users : u.staff_id = staff_id}
  IN  IF found = {} THEN NoUser ELSE CHOOSE u \in found : TRUE

\* users_collection.find_one({"staff_id": .., "user_type": "staff", "is_active": True})
FindStaff(staff_id) ==
  LET found == {u \in Users : u.staff_id = staff_id /\ u.user_type = "staff" /\ u.is_active}
  IN  IF found = {} THEN NoUser ELSE CHOOSE u \in found : TRUE

\* users_collection.find_one({"staff_id": ..})
FindUser(staff_id) ==
  LET found == {u \in Users : u.staff_id = staff_id}
  IN  IF found = {} THEN NoUser ELSE CHOOSE u \in found : TRUE

\* filter {"available": True, "reserved_by": None} of find_one_and_update
Claimable(s) == s.available = TRUE /\ s.reserved_by = Null

\* a find_one_and_update that selects the last match in natural order
FirstMatch_last(store) ==
  LET idx == {i \in 1..NumSlots : Claimable(store[SlotOrder[i]])}
  IN  IF idx = {} THEN Null
      ELSE SlotOrder[CHOOSE i \in idx : \A j \in idx : j <= i]

\* the document find_one_and_update selects: the first match in natural order
FirstMatch(store) ==
  LET idx == {i \in 1..NumSlots : Claimable(store[SlotOrder[i]])}
  IN  IF idx = {} THEN Null
      ELSE SlotOrder[CHOOSE i \in idx : \A j \in idx : i <= j]

\* a $set that forgets "available": False
Claimed_keepsAvailable(s, staff_id, user, t) ==
  [s EXCEPT !.reserved_by = staff_id,
            !.staff_email = user.email, !.department = user.department,
            !.reservation_time = t, !.last_updated = t]

\* a claim that stamps the lease one second ahead of the handler's clock
Claimed_ahead(s, staff_id, user, t) ==
  [s EXCEPT !.available = FALSE, !.reserved_by = staff_id,
            !.staff_email = user.email, !.department = user.department,
            !.reservation_time = t + TicksPerSec, !.last_updated = t]

\* the $set of find_one_and_update
Claimed(s, staff_id, user, t) ==
  [s EXCEPT !.available = FALSE, !.reserved_by = staff_id,
            !.staff_email = user.email, !.department = user.department,
            !.reservation_time = t, !.last_updated = t]

\* an auto-release that leaves reserved_by in place
Released_keepsOwner(s) ==
  [s EXCEPT !.available = TRUE, !.staff_email = Null,
            !.department = Null, !.reservation_time = NoTime]

\* an auto-release that forgets "available": True
Released_keepsFlag(s) ==
  [s EXCEPT !.reserved_by = Null, !.staff_email = Null,
            !.department = Null, !.reservation_time = NoTime]

\* the $set of the auto-release update_one
Released(s) ==
  [s EXCEPT !.available = TRUE, !.reserved_by = Null, !.staff_email = Null,
            !.department = Null, !.reservation_time = NoTime]

\* a sensor update that also marks an occupied slot as taken
Sensed_marksTaken(s, occupied, t) ==
  [s EXCEPT !.hardware_occupied = occupied, !.last_sensor_update = t,
            !.available = IF occupied THEN FALSE ELSE @]

\* the $set of the sensor update_one
Sensed(s, occupied, t) ==
  [s EXCEPT !.hardware_occupied = occupied, !.last_sensor_update = t]

\* a booking whose expires_at is the time of the reservation itself
Booking_noTTL(staff_id, user, slot_id, t) ==
  [staff_id |-> staff_id, staff_email |-> user.email, department |-> user.department,
   slot_id |-> slot_id, reserved_at |-> t, expires_at |-> t]

\* the document of bookings_collection.insert_one
Booking(staff_id, user, slot_id, t) ==
  [staff_id |-> staff_id, staff_email |-> user.email, department |-> user.department,
   slot_id |-> slot_id, reserved_at |-> t, expires_at |-> t + LeaseTicks]

\* ------------------------------------------------------------ my_bookings
\* bookings_collection.find({"staff_id": staff_id}): positions of the matches
Matching(ledger, staff_id) == {i \in 1..Len(ledger) : ledger[i].staff_id = staff_id}

\* .sort("reserved_at", -1) of the documents at the positions S: every order
\* that does not increase in reserved_at; the store leaves the order of
\* documents with equal keys open
RECURSIVE SortedDesc(_, _)
SortedDesc(ledger, S) ==
  IF S = {} THEN {<<>>}
  ELSE UNION {{<<ledger[i]>> \o r : r \in SortedDesc(ledger, S \ {i})} :
                i \in {j \in S : \A k \in S : ledger[k].reserved_at <= ledger[j].reserved_at}}

\* a cursor without .limit()
Limit_none(r, n) == r

\* .limit(n)
Limit(r, n) == SubSeq(r, 1, IF Len(r) < n THEN Len(r) ELSE n)

\* the lists the cursor of my_bookings can return
HistoryPages(ledger, staff_id) ==
  {Limit(r, PageSize) : r \in SortedDesc(ledger, Matching(ledger, staff_id))}

\* --------------------------------------------------- lease expiry evaluation
\* int(x) of a float: truncation toward zero
TruncDiv(x, d) == IF x >= 0 THEN x \div d ELSE 0 - ((0 - x) \div d)

\* total_seconds = int((reservation_time + timedelta(minutes=10) - now).total_seconds())
TotalSeconds(rt, t) == TruncDiv((rt + LeaseTicks) - t, TicksPerSec)

\* f"{minutes:02d}:{seconds:02d}", as the digits MM and SS
Countdown(m, s) == <<m \div 10, m % 10, s \div 10, s % 10>>

NoEntry ==
  [available |-> TRUE, status |-> Null, reserved_by |-> Null, staff_email |-> Null,
   department |-> Null, reservation_time |-> NoTime, time_left_min |-> -1,
   time_left_sec |-> -1, countdown |-> <<>>, expires_at |-> NoTime,
   hardware_occupied |-> FALSE, led_color |-> Null, buzzer |-> FALSE]

\* one iteration of the loop of slots_status on the snapshot document s
EntryA(s, t) ==
  LET ts   == TotalSeconds(s.reservation_time, t)
      base == [NoEntry EXCEPT !.available = s.available, !.reserved_by = s.reserved_by,
                 !.staff_email = s.staff_email, !.department = s.department,
                 !.reservation_time = s.reservation_time,
                 !.hardware_occupied = s.hardware_occupied]
      user == FindUser(s.reserved_by)
      fill == s.staff_email = Null /\ user # NoUser
  IN  IF s.reservation_time # NoTime
      THEN IF ts > 0
           THEN [base EXCEPT !.status = "RESERVED",
                   !.time_left_min = ts \div 60, !.time_left_sec = ts % 60,
                   !.countdown = Countdown(ts \div 60, ts % 60),
                   !.expires_at = s.reservation_time + LeaseTicks,
                   !.staff_email = IF fill THEN user.email ELSE s.staff_email,
                   !.department = IF fill THEN user.department ELSE s.department]
           ELSE [base EXCEPT !.status = "AVAILABLE", !.reservation_time = NoTime,
                   !.reserved_by = Null, !.staff_email = Null, !.department = Null]
      ELSE [base EXCEPT !.status = "AVAILABLE"]

\* a hardware feed that keeps the LED of a slot green while its record holds
\* a reservation_time, expired or not
EntryB_ledStale(s, t) ==
  LET ts   == TotalSeconds(s.reservation_time, t)
      base == [NoEntry EXCEPT !.available = s.available,
                 !.hardware_occupied = s.hardware_occupied]
  IN  IF s.reservation_time # NoTime /\ ts > 0
      THEN [base EXCEPT !.status = "RESERVED", !.reserved_by = s.reserved_by,
              !.staff_email = s.staff_email, !.department = s.department,
              !.time_left_min = ts \div 60, !.time_left_sec = ts % 60,
              !.countdown = Countdown(ts \div 60, ts % 60),
              !.led_color = "GREEN", !.buzzer = FALSE]
      ELSE [base EXCEPT !.status = "AVAILABLE",
              !.led_color = IF s.reservation_time # NoTime THEN "GREEN" ELSE "OFF",
              !.buzzer = FALSE]

\* one iteration of the loop of esp32_reserve_status on the snapshot document s
EntryB(s, t) ==
  LET ts   == TotalSeconds(s.reservation_time, t)
      base == [NoEntry EXCEPT !.available = s.available,
                 !.hardware_occupied = s.hardware_occupied]
  IN  IF s.reservation_time # NoTime /\ ts > 0
      THEN [base EXCEPT !.status = "RESERVED", !.reserved_by = s.reserved_by,
              !.staff_email = s.staff_email, !.department = s.department,
              !.time_left_min = ts \div 60, !.time_left_sec = ts % 60,
              !.countdown = Countdown(ts \div 60, ts % 60),
              !.led_color = "GREEN", !.buzzer = FALSE]
      ELSE [base EXCEPT !.status = "AVAILABLE", !.led_color = "OFF", !.buzzer = FALSE]

\* a loop that computes the expiry without the reservation_time test
Expired_noGuard(s, t) == ~(TotalSeconds(s.reservation_time, t) > 0)

\* the else-branch of both loops: the snapshot document holds a lease whose
\* whole seconds left are not positive
Expired(s, t) == s.reservation_time # NoTime /\ ~(TotalSeconds(s.reservation_time, t) > 0)

\* the branch of the loop of slots_status that issues the auto-release
ExpiredA(s, t) == Expired(s, t)

\* a hardware feed that releases only once the whole seconds left are negative
ExpiredB_strict(s, t) ==
  s.reservation_time # NoTime /\ TotalSeconds(s.reservation_time, t) < 0

\* the branch of the loop of esp32_reserve_status that issues the auto-release
ExpiredB(s, t) == Expired(s, t)

\* the slots a read releases, in loop order
ReleaseList(view, snap, t) ==
  SelectSeq(SlotOrder, LAMBDA id : IF view = "A" THEN ExpiredA(snap[id], t)
                                   ELSE ExpiredB(snap[id], t))

Entries(view, snap, t) ==
  [id \in SlotIds |-> IF view = "A" THEN EntryA(snap[id], t) ELSE EntryB(snap[id], t)]

NoTotals == [total_slots |-> -1, total_available |-> -1, total_reserved |-> -1]

\* totals that count the entries by their available flag
Totals_byFlag(view, entries) ==
  IF view = "A"
  THEN [total_slots |-> Cardinality(DOMAIN entries),
        total_available |->
          Cardinality({id \in DOMAIN entries : entries[id].available = TRUE}),
        total_reserved |->
          Cardinality({id \in DOMAIN entries : entries[id].available = FALSE})]
  ELSE [NoTotals EXCEPT !.total_slots = Cardinality(DOMAIN entries)]

\* total_slots, total_available and total_reserved of the slots_status
\* response; total_slots of the reserve-signal response
Totals(view, entries) ==
  IF view = "A"
  THEN [total_slots |-> Cardinality(DOMAIN entries),
        total_available |->
          Cardinality({id \in DOMAIN entries : entries[id].status = "AVAILABLE"}),
        total_reserved |->
          Cardinality({id \in DOMAIN entries : entries[id].status = "RESERVED"})]
  ELSE [NoTotals EXCEPT !.total_slots = Cardinality(DOMAIN entries)]

\* ------------------------------------------------------- handler records
NoRsvResp == [code |-> 0, slot_id |-> Null, reserved_at |-> NoTime, expires_at |-> NoTime]
RsvIdle   == [pc |-> "idle", staff_id |-> Null, user |-> NoUser, now |-> NoTime,
              slot_id |-> Null, resp |-> NoRsvResp]

NoStResp == [id \in SlotIds |-> NoEntry]
StIdle   == [pc |-> "idle", view |-> Null, snap |-> init_slots, now |-> NoTime,
             todo |-> <<>>, writes |-> {}, resp |-> NoStResp, totals |-> NoTotals]

NoSensorResp == [code |-> 0, slot_id |-> Null, occupied |-> FALSE, updated |-> FALSE]

NoHist == [code |-> 0, staff_id |-> Null, bookings |-> <<>>, total_bookings |-> 0]

\* The pool after init_slots and k <= NumSlots completed reserve calls of
\* PriorStaff at tick 0: what ReserveBegin, ReserveClaim and ReserveInsert make of the fresh
\* pool when called k times in a row.
PriorStaff == "cse101"

RECURSIVE PriorSlots(_)
PriorSlots(k) ==
  IF k = 0 THEN init_slots
  ELSE LET store == PriorSlots(k - 1)
       IN  [store EXCEPT ![FirstMatch(store)] =
              Claimed(@, PriorStaff, FindStaff(PriorStaff), 0)]

RECURSIVE PriorBookings(_)
PriorBookings(k) ==
  IF k = 0 THEN <<>>
  ELSE Append(PriorBookings(k - 1),
              Booking(PriorStaff, FindStaff(PriorStaff), FirstMatch(PriorSlots(k - 1)), 0))

Init ==
  /\ slots = PriorSlots(PriorLeases)
  /\ bookings = PriorBookings(PriorLeases)
  /\ now = 0
  /\ rsv = [p \in RsvProcs |-> RsvIdle]
  /\ st = [h \in StProcs |-> StIdle]
  /\ sensorResp = NoSensorResp
  /\ hist = NoHist

\* ------------------------------------------------------------- the clock
Tick ==
  /\ \E t \in Grid : /\ t > now
                     /\ \A u \in Grid : u > now => t <= u
                     /\ now' = t
  /\ UNCHANGED <<slots, bookings, rsv, st, sensorResp, hist>>

\* ---------------------------------------------------------- reserve_slot
\* request body read, staff lookup, 403, now = datetime.now(timezone.utc)
ReserveBegin(p, staff_id) ==
  /\ rsv[p].pc = "idle"
  /\ LET user == FindStaff(staff_id)
     IN  rsv' = [rsv EXCEPT ![p] =
                   IF user = NoUser
                   THEN [RsvIdle EXCEPT !.pc = "done", !.staff_id = staff_id,
                                        !.resp = [NoRsvResp EXCEPT !.code = 403]]
                   ELSE [RsvIdle EXCEPT !.pc = "claim", !.staff_id = staff_id,
                                        !.user = user, !.now = now]]
  /\ UNCHANGED <<slots, bookings, now, st, sensorResp, hist>>

\* a claim made of a find_one and a later update_one: a slot another handler
\* has just claimed, and not yet booked, was still read as free
ReserveClaim_nonAtomic(p) ==
  /\ rsv[p].pc = "claim"
  /\ LET racing == {rsv[q].slot_id : q \in {r \in RsvProcs : rsv[r].pc = "insert"}}
         m == IF racing # {} THEN CHOOSE id \in racing : TRUE ELSE FirstMatch(slots)
     IN  IF m = Null
         THEN /\ rsv' = [rsv EXCEPT ![p].pc = "done",
                                    ![p].resp = [NoRsvResp EXCEPT !.code = 404]]
              /\ UNCHANGED slots
         ELSE /\ slots' = [slots EXCEPT ![m] =
                             Claimed(@, rsv[p].staff_id, rsv[p].user, rsv[p].now)]
              /\ rsv' = [rsv EXCEPT ![p].pc = "insert", ![p].slot_id = m]
  /\ UNCHANGED <<bookings, now, st, sensorResp, hist>>

\* a claim without the "if not slot" return
ReserveClaim_noCheck(p) ==
  /\ rsv[p].pc = "claim"
  /\ LET m == FirstMatch(slots)
     IN  IF m = Null
         THEN /\ rsv' = [rsv EXCEPT ![p].pc = "insert"]
              /\ UNCHANGED slots
         ELSE /\ slots' = [slots EXCEPT ![m] =
                             Claimed(@, rsv[p].staff_id, rsv[p].user, rsv[p].now)]
              /\ rsv' = [rsv EXCEPT ![p].pc = "insert", ![p].slot_id = m]
  /\ UNCHANGED <<bookings, now, st, sensorResp, hist>>

\* a claim that answers 404 to a caller who already holds a slot
ReserveClaim_oneEach(p) ==
  /\ rsv[p].pc = "claim"
  /\ LET m == IF \E id \in SlotIds : slots[id].reserved_by = rsv[p].staff_id
              THEN Null ELSE FirstMatch(slots)
     IN  IF m = Null
         THEN /\ rsv' = [rsv EXCEPT ![p].pc = "done",
                                    ![p].resp = [NoRsvResp EXCEPT !.code = 404]]
              /\ UNCHANGED slots
         ELSE /\ slots' = [slots EXCEPT ![m] =
                             Claimed(@, rsv[p].staff_id, rsv[p].user, rsv[p].now)]
              /\ rsv' = [rsv EXCEPT ![p].pc = "insert", ![p].slot_id = m]
  /\ UNCHANGED <<bookings, now, st, sensorResp, hist>>

\* slots_collection.find_one_and_update(...), 404
ReserveClaim(p) ==
  /\ rsv[p].pc = "claim"
  /\ LET m == FirstMatch(slots)
     IN  IF m = Null
         THEN /\ rsv' = [rsv EXCEPT ![p].pc = "done",
                                    ![p].resp = [NoRsvResp EXCEPT !.code = 404]]
              /\ UNCHANGED slots
         ELSE /\ slots' = [slots EXCEPT ![m] =
                             Claimed(@, rsv[p].staff_id, rsv[p].user, rsv[p].now)]
              /\ rsv' = [rsv EXCEPT ![p].pc = "insert", ![p].slot_id = m]
  /\ UNCHANGED <<bookings, now, st, sensorResp, hist>>

\* bookings_collection.insert_one(...), 201
ReserveInsert(p) ==
  /\ rsv[p].pc = "insert"
  /\ bookings' = Append(bookings,
                   Booking(rsv[p].staff_id, rsv[p].user, rsv[p].slot_id, rsv[p].now))
  /\ rsv' = [rsv EXCEPT ![p].pc = "done",
                        ![p].resp = [code |-> 201, slot_id |-> rsv[p].slot_id,
                                     reserved_at |-> rsv[p].now,
                                     expires_at |-> rsv[p].now + LeaseTicks]]
  /\ UNCHANGED <<slots, now, st, sensorResp, hist>>

\* ------------------------------------- slots_status / esp32_reserve_status
\* slots = list(slots_collection.find({}, {"_id": 0}).sort("slot_id", 1))
StatusSnapshot(h, view) ==
  /\ st[h].pc = "idle"
  /\ st' = [st EXCEPT ![h] = [StIdle EXCEPT !.pc = "clock", !.view = view, !.snap = slots]]
  /\ UNCHANGED <<slots, bookings, now, rsv, sensorResp, hist>>

\* now = datetime.now(timezone.utc); the loop's local computation
StatusClock(h) ==
  /\ st[h].pc = "clock"
  /\ LET todo == ReleaseList(st[h].view, st[h].snap, now)
     IN  st' = [st EXCEPT ![h].now = now, ![h].todo = todo,
                          ![h].resp = Entries(st[h].view, st[h].snap, now),
                          ![h].totals = Totals(st[h].view,
                                               Entries(st[h].view, st[h].snap, now)),
                          ![h].pc = IF todo = <<>> THEN "done" ELSE "release"]
  /\ UNCHANGED <<slots, bookings, now, rsv, sensorResp, hist>>

\* a loop that reports the expired slot AVAILABLE and issues no update_one
StatusRelease_lost(h) ==
  /\ st[h].pc = "release"
  /\ st' = [st EXCEPT ![h].todo = Tail(@),
                      ![h].pc = IF Tail(st[h].todo) = <<>> THEN "done" ELSE "release"]
  /\ UNCHANGED <<slots, bookings, now, rsv, sensorResp, hist>>

\* slots_collection.update_one({"slot_id": slot["slot_id"]}, {"$set": ...})
StatusRelease(h) ==
  /\ st[h].pc = "release"
  /\ slots' = [slots EXCEPT ![Head(st[h].todo)] = Released(@)]
  /\ st' = [st EXCEPT ![h].todo = Tail(@),
                      ![h].writes = @ \cup {Head(st[h].todo)},
                      ![h].pc = IF Tail(st[h].todo) = <<>> THEN "done" ELSE "release"]
  /\ UNCHANGED <<bookings, now, rsv, sensorResp, hist>>

\* the response leaves the handler
StatusReturn(h) ==
  /\ st[h].pc = "done"
  /\ st' = [st EXCEPT ![h] = StIdle]
  /\ UNCHANGED <<slots, bookings, now, rsv, sensorResp, hist>>

\* -------------------------------------------------------- hardware_sensor
HardwareSensor(slot_id, occupied) ==
  /\ IF slot_id = Null \/ slot_id = ""
     THEN /\ sensorResp' = [NoSensorResp EXCEPT !.code = 400]
          /\ UNCHANGED slots
     ELSE /\ slots' = [id \in SlotIds |->
                         IF id = slot_id THEN Sensed(slots[id], occupied, now) ELSE slots[id]]
          /\ sensorResp' = [code |-> 200, slot_id |-> slot_id, occupied |-> occupied,
                            updated |-> (slots' # slots)]
  /\ UNCHANGED <<bookings, now, rsv, st, hist>>

\* ------------------------------------------------------------ my_bookings
MyBookings(staff_id) ==
  /\ \E page \in HistoryPages(bookings, staff_id) :
       hist' = [code |-> 200, staff_id |-> staff_id, bookings |-> page,
                total_bookings |-> Len(page)]
  /\ UNCHANGED <<slots, bookings, now, rsv, st, sensorResp>>

\* --------------------------------------------------------- specifications
\* Spec: the reservers and ConcReaders readers run concurrently, step by step.
Next ==
  \/ Tick
  \/ \E p \in RsvProcs, id \in RequestStaffIds : ReserveBegin(p, id)
  \/ \E p \in RsvProcs : ReserveClaim(p)
  \/ \E p \in RsvProcs : ReserveInsert(p)
  \/ \E h \in 1..ConcReaders, view \in {"A", "B"} : StatusSnapshot(h, view)
  \/ \E h \in 1..ConcReaders : StatusClock(h)
  \/ \E h \in 1..ConcReaders : StatusRelease(h)
  \/ \E h \in 1..ConcReaders : StatusReturn(h)

Spec == Init /\ [][Next]_vars

\* SpecHw: sensor reports run concurrently with HwReservers reservers and
\* ConcReaders readers.
HwNext ==
  \/ Tick
  \/ \E p \in 1..HwReservers, id \in RequestStaffIds : ReserveBegin(p, id)
  \/ \E p \in 1..HwReservers : ReserveClaim(p)
  \/ \E p \in 1..HwReservers : ReserveInsert(p)
  \/ \E h \in 1..ConcReaders, view \in {"A", "B"} : StatusSnapshot(h, view)
  \/ \E h \in 1..ConcReaders : StatusClock(h)
  \/ \E h \in 1..ConcReaders : StatusRelease(h)
  \/ \E h \in 1..ConcReaders : StatusReturn(h)
  \/ \E id \in RequestSlotIds, occupied \in BOOLEAN : HardwareSensor(id, occupied)

SpecHw == Init /\ [][HwNext]_vars

\* SpecSeq: requests are served one after the other; a handler starts only
\* when no other handler is between its first and its last step.
Quiet ==
  /\ \A p \in RsvProcs : rsv[p].pc \in {"idle", "done"}
  /\ \A h \in StProcs : st[h].pc \in {"idle", "done"}

SeqNext ==
  \/ Tick
  \/ \E p \in RsvProcs, id \in RequestStaffIds : Quiet /\ ReserveBegin(p, id)
  \/ \E p \in RsvProcs : ReserveClaim(p)
  \/ \E p \in RsvProcs : ReserveInsert(p)
  \/ \E h \in StProcs, view \in {"A", "B"} : Quiet /\ StatusSnapshot(h, view)
  \/ \E h \in StProcs : StatusClock(h)
  \/ \E h \in StProcs : StatusRelease(h)
  \/ \E h \in StProcs : StatusReturn(h)

SpecSeq == Init /\ [][SeqNext]_vars

\* SpecRace: only reserve calls run, concurrently, while time passes.
RaceNext ==
  \/ Tick
  \/ \E p \in RsvProcs, id \in RequestStaffIds : ReserveBegin(p, id)
  \/ \E p \in RsvProcs : ReserveClaim(p)
  \/ \E p \in RsvProcs : ReserveInsert(p)

SpecRace == Init /\ [][RaceNext]_vars

\* SpecLive: a reserve call and a status reader run concurrently.  Time keeps
\* advancing (up to the end of the clock of the model), the reader keeps
\* being called and a handler that has started a read carries it through.
\* A reserve call starts only while its lease still ends on the clock of the
\* model.
LeaseFitsClock == now + LeaseTicks <= MaxEpoch * LeaseTicks + Window

LiveNext ==
  \/ Tick
  \/ \E id \in RequestStaffIds : LeaseFitsClock /\ ReserveBegin(1, id)
  \/ ReserveClaim(1)
  \/ ReserveInsert(1)
  \/ \E view \in {"A", "B"} : StatusSnapshot(1, view)
  \/ StatusClock(1)
  \/ StatusRelease(1)
  \/ StatusReturn(1)

SpecLive ==
  /\ Init
  /\ [][LiveNext]_vars
  /\ WF_vars(Tick)
  /\ WF_vars(\E view \in {"A", "B"} : StatusSnapshot(1, view))
  /\ WF_vars(StatusClock(1))
  /\ WF_vars(StatusRelease(1))
  /\ WF_vars(StatusReturn(1))

\* SpecFirst: reserve calls run, concurrently, on the pool as init_slots
\* leaves it.
FirstInit ==
  /\ slots = init_slots
  /\ bookings = <<>>
  /\ now = 0
  /\ rsv = [p \in RsvProcs |-> RsvIdle]
  /\ st = [h \in StProcs |-> StIdle]
  /\ sensorResp = NoSensorResp
  /\ hist = NoHist

SpecFirst == FirstInit /\ [][RaceNext]_vars

\* SpecCountdown: one slot holds a lease that reserve_slot stored at a tick of
\* 0..MaxStart; the clock stands at any tick from the start of the lease to
\* QuerySlack ticks past its end, and a status reader of either view evaluates it.
CountdownInit ==
  /\ \E rt \in 0..MaxStart :
       /\ slots = [init_slots EXCEPT
                     ![FirstMatch(init_slots)] =
                        Claimed(@, PriorStaff, FindStaff(PriorStaff), rt)]
       /\ bookings = <<Booking(PriorStaff, FindStaff(PriorStaff),
                               FirstMatch(init_slots), rt)>>
       /\ now \in rt..(rt + LeaseTicks + QuerySlack)
  /\ rsv = [p \in RsvProcs |-> RsvIdle]
  /\ st = [h \in StProcs |-> StIdle]
  /\ sensorResp = NoSensorResp
  /\ hist = NoHist

CountdownNext ==
  \/ \E view \in {"A", "B"} : StatusSnapshot(1, view)
  \/ StatusClock(1)
  \/ StatusRelease(1)
  \/ StatusReturn(1)

SpecCountdown == CountdownInit /\ [][CountdownNext]_vars

\* SpecHistory: my_bookings is called on a store that has served n reserve
\* calls in rounds of NumSlots; the leases of a round have expired and have
\* been released by a status read before the next round starts.  Every third
\* call, up to s of them, was made by the second staff member.  Within a
\* round the handlers read their clocks against the order of their inserts
\* (w = 0), in that order (w = 1), or the first w of them on the same tick.
RoundTicks == LeaseTicks + NumSlots

HistoryStaff(i, s) == IF i % 3 = 0 /\ i \div 3 <= s THEN "ece101" ELSE "cse101"

HistoryTime(i, w) ==
  LET pos == (i - 1) % NumSlots
  IN  ((i - 1) \div NumSlots) * RoundTicks
        + (IF w = 0 THEN NumSlots - 1 - pos ELSE IF pos < w THEN 0 ELSE pos - (w - 1))

HistoryLedger(n, s, w) ==
  [i \in 1..n |-> Booking(HistoryStaff(i, s), FindStaff(HistoryStaff(i, s)),
                          SlotOrder[((i - 1) % NumSlots) + 1], HistoryTime(i, w))]

\* the slot store once the last lease of every slot has been released
HistorySlots(ledger) ==
  [id \in SlotIds |->
     LET idx == {i \in 1..Len(ledger) : ledger[i].slot_id = id}
     IN  IF idx = {} THEN FreshSlot
         ELSE LET b == ledger[CHOOSE i \in idx : \A j \in idx : j <= i]
              IN  Released(Claimed(FreshSlot, b.staff_id, FindStaff(b.staff_id),
                                   b.reserved_at))]

HistoryInit ==
  /\ \E n \in 0..MaxLedger, s \in 0..MaxOther, w \in 0..MaxTwist :
       /\ bookings = HistoryLedger(n, s, w)
       /\ slots = HistorySlots(HistoryLedger(n, s, w))
       /\ now = ((n + NumSlots - 1) \div NumSlots) * RoundTicks
  /\ rsv = [p \in RsvProcs |-> RsvIdle]
  /\ st = [h \in StProcs |-> StIdle]
  /\ sensorResp = NoSensorResp
  /\ hist = NoHist

HistoryNext == \E staff_id \in HistoryStaffIds : MyBookings(staff_id)

SpecHistory == HistoryInit /\ [][HistoryNext]_vars

\* ================================================================ claims
\* a staff_id that resolves to an active staff account
AuthorizedId(id) ==
  \E u \in Users : u.staff_id = id /\ u.user_type = "staff" /\ u.is_active = TRUE

\* the slot is stored with available == true and reserved_by == null
Free(id) == slots[id].available = TRUE /\ slots[id].reserved_by = Null

\* the stored lease of the slot is active at time t
ActiveLease(id, t) ==
  slots[id].reservation_time # NoTime /\ t - slots[id].reservation_time < LeaseTicks

MinOf(a, b) == IF a <= b THEN a ELSE b

\* ---------------------------------------------------------------- C1
RaceDone == \A p \in RsvProcs : rsv[p].pc = "done"
Callers  == {p \in RsvProcs : AuthorizedId(rsv[p].staff_id)}
Winners  == {p \in RsvProcs : rsv[p].resp.code = 201}
Losers   == {p \in RsvProcs : rsv[p].resp.code = 404}
PoolK    == NumSlots - PriorLeases

\* C1: when the authorized reserve calls of SpecRace have all run, in any
\* interleaving, against a pool that had PoolK slots available, exactly
\* min(N, PoolK) of the N calls succeeded, each with a different slot_id that
\* is stored as leased to its caller, and the other calls failed with 404.
C1_AtMostOneWinner ==
  RaceDone =>
    /\ Cardinality(Winners) = MinOf(Cardinality(Callers), PoolK)
    /\ Losers = Callers \ Winners
    /\ \A p, q \in Winners : p # q => rsv[p].resp.slot_id # rsv[q].resp.slot_id
    /\ \A p \in Winners :
         /\ rsv[p].resp.slot_id \in SlotIds
         /\ slots[rsv[p].resp.slot_id].available = FALSE
         /\ slots[rsv[p].resp.slot_id].reserved_by = rsv[p].staff_id

C1_Witness ==
  /\ RaceDone
  /\ Cardinality(Callers) > PoolK
  /\ Winners # {}
  /\ Losers # {}

\* ---------------------------------------------------------------- C2
\* C2: no step clears a stored lease that is still active: whenever a slot's
\* reservation_time goes from present to absent, now - reservation_time >=
\* LEASE_TTL for the lease that was stored.
C2_ReleaseOnlyExpired ==
  [][\A id \in SlotIds :
       (slots[id].reservation_time # NoTime /\ slots'[id].reservation_time = NoTime)
         => now - slots[id].reservation_time >= LeaseTicks]_vars

\* ---------------------------------------------------------------- C3
\* C3: a read that evaluates a lease started at T reports the slot RESERVED
\* exactly when its query time is before T + TTL, and AVAILABLE exactly when
\* its query time is at or after T + TTL.
C3_ExpiryBoundary ==
  \A h \in StProcs :
    st[h].pc \in {"release", "done"} =>
      \A id \in SlotIds :
        LET T == st[h].snap[id].reservation_time
        IN  T # NoTime =>
              /\ st[h].resp[id].status = "RESERVED" <=> st[h].now < T + LeaseTicks
              /\ st[h].resp[id].status = "AVAILABLE" <=> st[h].now >= T + LeaseTicks

\* ---------------------------------------------------------------- C4
ReadCompletes(h) == st[h].pc \in {"clock", "release"} /\ st'[h].pc = "done"

\* C4: when a status read that runs with no concurrent handler completes,
\* every slot whose lease in the snapshot had now >= reservation_time +
\* LEASE_TTL is stored available with reserved_by, reservation_time and the
\* cached metadata cleared, is reported AVAILABLE, and matches the filter of
\* the allocator.
C4_ReleaseOnExpiredRead ==
  [][\A h \in StProcs :
       ReadCompletes(h) =>
         \A id \in SlotIds :
           LET T == st'[h].snap[id].reservation_time
           IN  (T # NoTime /\ st'[h].now >= T + LeaseTicks) =>
                 /\ slots'[id].available = TRUE
                 /\ slots'[id].reserved_by = Null
                 /\ slots'[id].reservation_time = NoTime
                 /\ slots'[id].staff_email = Null
                 /\ slots'[id].department = Null
                 /\ st'[h].resp[id].status = "AVAILABLE"
                 /\ FirstMatch(slots') # Null]_vars

C4_Witness ==
  \E h \in StProcs, id \in SlotIds :
    /\ st[h].pc = "done"
    /\ st[h].snap[id].reservation_time # NoTime
    /\ st[h].now >= st[h].snap[id].reservation_time + LeaseTicks
    /\ id \in st[h].writes
    /\ Free(id)
    /\ st[h].resp[id].status = "AVAILABLE"

\* ---------------------------------------------------------------- C5
\* C5: when a status read h completes after another read g (either view) has
\* auto-released a slot, handlers running one after the other, and the slot
\* has not been leased again in between, both reads report the slot AVAILABLE
\* and h has issued no write to it, so its record is as h found it; a read
\* that issues no write at all leaves the whole store as it found it.
C5_IdempotentAutoRelease ==
  [][\A g, h \in StProcs :
       (g # h /\ st[g].pc = "done" /\ ReadCompletes(h)) =>
         /\ \A id \in SlotIds :
              (id \in st[g].writes /\ st'[h].snap[id].reservation_time = NoTime) =>
                /\ st[g].resp[id].status = "AVAILABLE"
                /\ st'[h].resp[id].status = "AVAILABLE"
                /\ id \notin st'[h].writes
                /\ slots'[id] = st'[h].snap[id]
         /\ st'[h].writes = {} => slots' = st'[h].snap]_vars

C5_Witness ==
  \E g, h \in StProcs, id \in SlotIds :
    /\ g # h
    /\ st[g].pc = "done" /\ st[h].pc = "done"
    /\ st[g].now < st[h].now
    /\ id \in st[g].writes
    /\ st[h].snap[id].reservation_time = NoTime
    /\ st[g].resp[id].status = "AVAILABLE"
    /\ st[h].resp[id].status = "AVAILABLE"
    /\ st[h].writes = {}
    /\ slots = st[h].snap

\* ---------------------------------------------------------------- C6
\* C6: every stored slot has available == false if and only if reserved_by
\* and reservation_time are both present.
C6_SlotRecordInvariant ==
  \A id \in SlotIds :
    slots[id].available = FALSE <=>
      (slots[id].reserved_by # Null /\ slots[id].reservation_time # NoTime)

C6_Witness ==
  \E a, b \in SlotIds :
    /\ slots[a].available = FALSE /\ slots[a].reservation_time > 0
    /\ slots[b].available = TRUE /\ slots[b].last_updated # NoTime
    /\ slots["S1"].last_sensor_update # NoTime

\* ---------------------------------------------------------------- C7
\* C7 as claimed: a slot's stored available flag is true if and only if the
\* slot has no active lease.
C7_AvailableIffNoActiveLease ==
  \A id \in SlotIds : slots[id].available = TRUE <=> ~ActiveLease(id, now)

\* C7 as amended: a slot's stored available flag is true if and only if the
\* slot has no stored lease; an available slot has no active lease, and a
\* slot with a stored lease, expired or not, does not match the allocator.
C7_AvailableIffNoStoredLease ==
  \A id \in SlotIds :
    /\ slots[id].available = TRUE <=> slots[id].reservation_time = NoTime
    /\ slots[id].available = TRUE => ~ActiveLease(id, now)
    /\ slots[id].reservation_time # NoTime => ~Free(id)

C7_Witness ==
  \E id \in SlotIds :
    /\ slots[id].reservation_time # NoTime
    /\ now >= slots[id].reservation_time + LeaseTicks
    /\ slots[id].available = FALSE

\* ---------------------------------------------------------------- C8
ClaimStep(p) == rsv[p].pc = "claim" /\ rsv'[p].pc # "claim"

\* C8: the atomic claim of an authorized reserve call ends in 404 exactly when
\* no stored slot has available == true and reserved_by == null; then no slot
\* record and no booking changes and the handler is done; a handler that has
\* answered takes no further step.
C8_NoSlotAvailable ==
  [][\A p \in RsvProcs :
       /\ ClaimStep(p) =>
            /\ rsv'[p].resp.code = 404 <=> ~(\E id \in SlotIds : Free(id))
            /\ rsv'[p].resp.code = 404 =>
                 /\ slots' = slots
                 /\ bookings' = bookings
                 /\ rsv'[p].pc = "done"
                 /\ rsv'[p].slot_id = Null
       /\ rsv[p].pc = "done" => rsv'[p] = rsv[p]]_vars

C8_Witness ==
  \E p \in RsvProcs :
    /\ rsv[p].pc = "done"
    /\ rsv[p].resp.code = 404
    /\ AuthorizedId(rsv[p].staff_id)
    /\ ~(\E id \in SlotIds : Free(id))

\* ---------------------------------------------------------------- C9
\* C9: a sensor report is acknowledged only for a slot of the pool.
C9_SlotNotFound ==
  sensorResp.code = 200 => sensorResp.slot_id \in SlotIds

\* ---------------------------------------------------------------- C10
BeginStep(p) == rsv[p].pc = "idle" /\ rsv'[p].pc # "idle"

\* C10: a reserve call whose staff_id does not resolve to an active staff
\* account is answered 403 in its first step, which touches neither the slots
\* nor the ledger, and the handler takes no further step.
C10_Unauthorized ==
  [][\A p \in RsvProcs :
       /\ (BeginStep(p) /\ ~AuthorizedId(rsv'[p].staff_id)) =>
            /\ rsv'[p].pc = "done"
            /\ rsv'[p].resp.code = 403
            /\ rsv'[p].slot_id = Null
            /\ slots' = slots
            /\ bookings' = bookings
       /\ (rsv[p].pc = "done" /\ rsv[p].resp.code = 403) => rsv'[p] = rsv[p]]_vars

C10_Witness ==
  \E p \in RsvProcs :
    /\ rsv[p].pc = "done"
    /\ rsv[p].resp.code = 403
    /\ ~AuthorizedId(rsv[p].staff_id)
    /\ \E id \in SlotIds : Free(id)

\* ---------------------------------------------------------------- C11
InsertStep(p) == rsv[p].pc = "insert" /\ rsv'[p].pc = "done"

\* C11: every step leaves the bookings already in the ledger in place and
\* unchanged; the ledger grows by exactly one booking in the step that
\* answers a reserve call 201 and in no other step; that booking carries the
\* caller's staff_id, the slot_id of the response, a reserved_at equal to the
\* reservation_time the call's claim stored in the slot, and expires_at =
\* reserved_at + LEASE_TTL; a call answered 403 or 404 appends nothing.
C11_LedgerAppendOnly ==
  [][/\ Len(bookings') >= Len(bookings)
     /\ SubSeq(bookings', 1, Len(bookings)) = bookings
     /\ Len(bookings') - Len(bookings) = Cardinality({p \in RsvProcs : InsertStep(p)})
     /\ \A p \in RsvProcs :
          /\ (ClaimStep(p) /\ rsv'[p].pc = "insert") =>
               /\ slots'[rsv'[p].slot_id].reservation_time = rsv'[p].now
               /\ slots'[rsv'[p].slot_id].reserved_by = rsv'[p].staff_id
               /\ rsv'[p].now = rsv[p].now
          /\ InsertStep(p) =>
               LET b == bookings'[Len(bookings')]
               IN  /\ rsv'[p].resp.code = 201
                   /\ b.staff_id = rsv[p].staff_id
                   /\ b.slot_id = rsv[p].slot_id
                   /\ b.slot_id = rsv'[p].resp.slot_id
                   /\ b.reserved_at = rsv[p].now
                   /\ b.reserved_at = rsv'[p].resp.reserved_at
                   /\ b.expires_at = b.reserved_at + LeaseTicks
                   /\ b.expires_at = rsv'[p].resp.expires_at
          /\ (rsv[p].pc # "done" /\ rsv'[p].pc = "done" /\ rsv'[p].resp.code # 201) =>
               /\ rsv'[p].resp.code \in {403, 404}
               /\ bookings' = bookings]_vars

C11_Witness ==
  \E p, q \in RsvProcs :
    /\ rsv[p].resp.code = 201
    /\ rsv[q].resp.code = 404
    /\ Len(bookings) = PriorLeases + 1
    /\ bookings[Len(bookings)].slot_id = rsv[p].resp.slot_id
    /\ bookings[Len(bookings)].staff_id = rsv[p].staff_id
    /\ slots[rsv[p].resp.slot_id].reservation_time = bookings[Len(bookings)].reserved_at
    /\ \E h \in StProcs : st[h].writes # {}

\* ---------------------------------------------------------------- C12
\* a step of the sensor handler: the clock stands still and no reserve or
\* status handler moves on (each of their steps changes pc or todo)
SensorStep ==
  /\ now' = now
  /\ \A p \in RsvProcs : rsv'[p].pc = rsv[p].pc
  /\ \A h \in StProcs : st'[h].pc = st[h].pc /\ st'[h].todo = st[h].todo

\* the lease fields and cached metadata of a slot record
LeaseFields(s) ==
  <<s.available, s.reserved_by, s.reservation_time, s.staff_email, s.department,
    s.last_updated>>

\* C12: a sensor report changes nothing but hardware_occupied and
\* last_sensor_update of the slot it names: the lease fields and metadata of
\* every slot and the ledger stay as they were, every slot has the same
\* status and countdown in both views, the same auto-release is due, and the
\* named slot then stores the reported value, which the hardware feed
\* returns from its snapshot; steps of reserve, of the status reads and of
\* their auto-release never change hardware_occupied.
C12_SensorFrame ==
  [][/\ IF SensorStep
        THEN
          /\ bookings' = bookings
          /\ \A id \in SlotIds \ {sensorResp'.slot_id} : slots'[id] = slots[id]
          /\ (sensorResp'.code = 200 /\ sensorResp'.slot_id \in SlotIds) =>
               LET old == slots[sensorResp'.slot_id]
                   new == slots'[sensorResp'.slot_id]
               IN  /\ LeaseFields(new) = LeaseFields(old)
                   /\ new.hardware_occupied = sensorResp'.occupied
                   /\ new.last_sensor_update = now
                   /\ Expired(new, now) = Expired(old, now)
                   /\ LET a1 == EntryA(old, now)
                          a2 == EntryA(new, now)
                          b1 == EntryB(old, now)
                          b2 == EntryB(new, now)
                      IN  /\ a2.status = a1.status /\ a2.countdown = a1.countdown
                          /\ b2.status = b1.status /\ b2.countdown = b1.countdown
                          /\ b2.hardware_occupied = sensorResp'.occupied
          /\ sensorResp'.code # 200 => slots' = slots
        ELSE
          /\ sensorResp' = sensorResp
          /\ \A id \in SlotIds :
               /\ slots'[id].hardware_occupied = slots[id].hardware_occupied
               /\ slots'[id].last_sensor_update = slots[id].last_sensor_update
     /\ \A h \in StProcs :
          /\ (st[h].pc = "idle" /\ st'[h].pc = "clock") => st'[h].snap = slots
          /\ (st[h].pc = "clock" /\ st'[h].pc # "clock") =>
               \A id \in SlotIds :
                 st'[h].resp[id].hardware_occupied = st[h].snap[id].hardware_occupied]_vars

C12_Witness ==
  \E h \in StProcs :
    /\ st[h].pc = "done" /\ st[h].view = "B"
    /\ sensorResp.code = 200 /\ sensorResp.slot_id = "S1" /\ sensorResp.occupied = TRUE
    /\ slots["S1"].hardware_occupied = TRUE
    /\ slots["S1"].reservation_time = NoTime
    /\ st[h].resp["S1"].status = "AVAILABLE"
    /\ st[h].resp["S1"].hardware_occupied = TRUE
    /\ \E id \in SlotIds : st[h].resp[id].status = "RESERVED"

\* ---------------------------------------------------------------- C13
\* max(0, TTL - (t - rt)) in whole seconds
Remaining(rt, t) ==
  IF (rt + LeaseTicks) - t <= 0 THEN 0 ELSE ((rt + LeaseTicks) - t) \div TicksPerSec

\* C13: for a lease started at T and evaluated at query time t, the entry of
\* either view carries time_left_min = remaining // 60, time_left_sec =
\* remaining % 60 and the countdown MM:SS of the two, where remaining =
\* max(0, TTL - (t - T)) in whole seconds; remaining is 0 exactly when the
\* lease is not active, and is then rendered 00:00.
C13_CountdownRendering ==
  \A h \in StProcs :
    st[h].pc \in {"release", "done"} =>
      \A id \in SlotIds :
        LET T == st[h].snap[id].reservation_time
            remaining == Remaining(T, st[h].now)
            e == st[h].resp[id]
        IN  T # NoTime =>
              /\ e.time_left_min = remaining \div 60
              /\ e.time_left_sec = remaining % 60
              /\ e.countdown = Countdown(remaining \div 60, remaining % 60)
              /\ remaining = 0 <=> ~(st[h].now - T < LeaseTicks)
              /\ remaining = 0 => e.countdown = <<0, 0, 0, 0>> /\ e.status # "RESERVED"

\* ---------------------------------------------------------------- C14
\* C14: a my-bookings call for a staff_id answers with bookings of the ledger
\* that all carry that staff_id, each at most once, in an order that never
\* increases in reserved_at, min(20, number of that requester's bookings) of
\* them; no booking it leaves out is more recent than one it returns; the
\* ledger and the slot store are as before the call.
C14_History ==
  [][hist' # hist =>
       LET page == hist'.bookings
           mine == Matching(bookings, hist'.staff_id)
           held == {i \in mine : \E k \in 1..Len(page) : page[k] = bookings[i]}
       IN  /\ bookings' = bookings
           /\ slots' = slots
           /\ hist'.code = 200
           /\ hist'.total_bookings = Len(page)
           /\ \A k \in 1..Len(page) :
                /\ page[k].staff_id = hist'.staff_id
                /\ \E i \in mine : bookings[i] = page[k]
           /\ \A k, l \in 1..Len(page) : k < l =>
                /\ page[k] # page[l]
                /\ page[k].reserved_at >= page[l].reserved_at
           /\ Len(page) <= PageSize
           /\ Len(page) = (IF Cardinality(mine) > PageSize THEN PageSize
                           ELSE Cardinality(mine))
           /\ \A i \in mine \ held, j \in held :
                bookings[j].reserved_at >= bookings[i].reserved_at]_vars

C14_Witness ==
  LET mine == Matching(bookings, hist.staff_id)
      held == {i \in mine : \E k \in 1..Len(hist.bookings) : hist.bookings[k] = bookings[i]}
  IN  /\ hist.code = 200
      /\ Cardinality(mine) > PageSize
      /\ Len(hist.bookings) = PageSize
      /\ \E i \in mine \ held, j \in held : bookings[i].reserved_at = bookings[j].reserved_at
      /\ \E k \in 1..Len(bookings) : bookings[k].staff_id # hist.staff_id

\* ---------------------------------------------------------------- C15
\* C15: in every reserve-signal response every slot entry has led_color GREEN
\* if its status is RESERVED and OFF if it is not, and buzzer false.
C15_HardwareSignal ==
  \A h \in StProcs :
    (st[h].view = "B" /\ st[h].pc \in {"release", "done"}) =>
      \A id \in SlotIds :
        LET e == st[h].resp[id]
        IN  /\ e.status \in {"RESERVED", "AVAILABLE"}
            /\ e.led_color = "GREEN" <=> e.status = "RESERVED"
            /\ e.led_color = "OFF" <=> e.status # "RESERVED"
            /\ e.buzzer = FALSE

C15_Witness ==
  \E h \in StProcs, a, b, c \in SlotIds :
    /\ st[h].view = "B" /\ st[h].pc = "release"
    /\ st[h].resp[a].status = "RESERVED" /\ st[h].resp[a].led_color = "GREEN"
    /\ st[h].snap[b].reservation_time # NoTime
    /\ st[h].resp[b].status = "AVAILABLE" /\ st[h].resp[b].led_color = "OFF"
    /\ st[h].snap[c].reservation_time = NoTime
    /\ st[h].resp[c].status = "AVAILABLE" /\ st[h].resp[c].led_color = "OFF"

\* ---------------------------------------------------------------- C16
\* C16: in every slots_status response every entry has status AVAILABLE or
\* RESERVED, total_available and total_reserved are the numbers of entries
\* with each status, their sum is total_slots, and total_slots is the size of
\* the pool, 5.
C16_StatusCounts ==
  \A h \in StProcs :
    (st[h].view = "A" /\ st[h].pc \in {"release", "done"}) =>
      LET e == st[h].resp
          t == st[h].totals
      IN  /\ \A id \in SlotIds : e[id].status \in {"AVAILABLE", "RESERVED"}
          /\ t.total_available = Cardinality({id \in SlotIds : e[id].status = "AVAILABLE"})
          /\ t.total_reserved = Cardinality({id \in SlotIds : e[id].status = "RESERVED"})
          /\ t.total_available + t.total_reserved = t.total_slots
          /\ t.total_slots = NumSlots
          /\ NumSlots = 5

C16_Witness ==
  \E h \in StProcs, id \in SlotIds :
    /\ st[h].view = "A" /\ st[h].pc = "release"
    /\ st[h].totals.total_available > 0
    /\ st[h].totals.total_reserved > 0
    /\ st[h].resp[id].status = "AVAILABLE" /\ st[h].resp[id].available = FALSE

\* ---------------------------------------------------------------- C17
\* no slot of the pool holds a lease
NoLeases == \A id \in SlotIds : Free(id) /\ slots[id].reservation_time = NoTime

\* C17: the claim of an authorized reserve call that runs on a pool of 5
\* slots without leases takes S1 and no other slot, and the call is then
\* answered 201 with slot_id S1 and expires_at = reserved_at + 10 minutes.
C17_FirstAllocation ==
  [][\A p \in RsvProcs :
       /\ (ClaimStep(p) /\ NoLeases) =>
            /\ NumSlots = 5
            /\ AuthorizedId(rsv[p].staff_id)
            /\ rsv'[p].pc = "insert"
            /\ rsv'[p].slot_id = "S1"
            /\ slots'["S1"].available = FALSE
            /\ slots'["S1"].reserved_by = rsv[p].staff_id
            /\ \A id \in SlotIds \ {"S1"} : slots'[id] = slots[id]
       /\ InsertStep(p) =>
            /\ rsv'[p].resp.code = 201
            /\ rsv'[p].resp.slot_id = rsv[p].slot_id
            /\ rsv'[p].resp.reserved_at = rsv[p].now
            /\ rsv'[p].resp.expires_at
                 = rsv'[p].resp.reserved_at + 10 * 60 * TicksPerSec]_vars

C17_Witness ==
  \E p, q \in RsvProcs :
    /\ rsv[p].resp.code = 201 /\ rsv[p].resp.slot_id = "S1"
    /\ rsv[p].resp.reserved_at > 0
    /\ rsv[p].resp.expires_at = rsv[p].resp.reserved_at + LeaseTicks
    /\ bookings[1].slot_id = "S2"
    /\ rsv[q].resp.slot_id = "S2"
    /\ \A id \in SlotIds \ {"S1", "S2"} : Free(id)

\* ---------------------------------------------------------------- C18
\* the ledger holds the booking of the lease stored in the slot record s
Booked(id, s) ==
  \E i \in 1..Len(bookings) :
    /\ bookings[i].slot_id = id
    /\ bookings[i].staff_id = s.reserved_by
    /\ bookings[i].reserved_at = s.reservation_time

\* C18: whenever a status read of either view takes its snapshot of the slot
\* store, the ledger holds the booking of every lease the snapshot shows.
C18_ClaimAndAppendAtomic ==
  [][\A h \in StProcs :
       (st[h].pc = "idle" /\ st'[h].pc = "clock") =>
         \A id \in SlotIds :
           st'[h].snap[id].reservation_time # NoTime => Booked(id, st'[h].snap[id])]_vars

\* ---------------------------------------------------------------- C19
\* the store a read leaves when no other handler runs during it
StoreAfter(snap, t) ==
  [id \in SlotIds |-> IF Expired(snap[id], t) THEN Released(snap[id]) ELSE snap[id]]

\* C19: for the snapshot and query time of any status read, the loops of
\* slots_status and reserve-signal give every slot the same status, AVAILABLE
\* or RESERVED, and the same countdown, and decide the same auto-release
\* writes; the read issues exactly those writes, and when no other handler
\* runs during it the store it leaves is the same function of snapshot and
\* query time whichever view it served.
C19_ViewsAgree ==
  [][\A h \in StProcs :
       /\ (st[h].pc = "clock" /\ st'[h].pc # "clock") =>
            LET a == Entries("A", st[h].snap, st'[h].now)
                b == Entries("B", st[h].snap, st'[h].now)
            IN  /\ st'[h].resp = (IF st[h].view = "A" THEN a ELSE b)
                /\ \A id \in SlotIds :
                     /\ a[id].status \in {"AVAILABLE", "RESERVED"}
                     /\ a[id].status = b[id].status
                     /\ a[id].countdown = b[id].countdown
                     /\ a[id].time_left_min = b[id].time_left_min
                     /\ a[id].time_left_sec = b[id].time_left_sec
                /\ ReleaseList("A", st[h].snap, st'[h].now)
                     = ReleaseList("B", st[h].snap, st'[h].now)
                /\ st'[h].todo = ReleaseList("A", st[h].snap, st'[h].now)
       /\ ReadCompletes(h) =>
            /\ st'[h].writes = {id \in SlotIds : ExpiredA(st'[h].snap[id], st'[h].now)}
            /\ st'[h].writes = {id \in SlotIds : ExpiredB(st'[h].snap[id], st'[h].now)}
            /\ slots' = StoreAfter(st'[h].snap, st'[h].now)]_vars

C19_Witness ==
  \E g, h \in StProcs, b \in SlotIds :
    /\ st[g].pc = "done" /\ st[g].view = "A" /\ st[g].writes = {}
    /\ st[h].pc = "done" /\ st[h].view = "B" /\ st[h].writes # {}
    /\ st[h].snap = st[g].snap
    /\ st[h].now > st[g].now
    /\ b \in st[h].writes
    /\ st[g].resp[b].status = "RESERVED"
    /\ st[g].resp[b].countdown # <<>>
    /\ st[g].resp[b].countdown = EntryB(st[g].snap[b], st[g].now).countdown
    /\ st[h].resp[b].status = "AVAILABLE"
    /\ EntryA(st[h].snap[b], st[h].now).status = "AVAILABLE"
    /\ slots = StoreAfter(st[h].snap, st[h].now)

\* ---------------------------------------------------------------- C20
\* C20: while time advances and status reads keep being served, every slot
\* that is stored as leased is later stored available with no holder, and
\* the pool keeps its slots.
C20_LazyDecayLive ==
  /\ [](DOMAIN slots = SlotIds)
  /\ \A id \in SlotIds : (slots[id].available = FALSE) ~> Free(id)

C20_Witness ==
  \E id \in SlotIds :
    /\ rsv[1].resp.code = 201 /\ rsv[1].resp.slot_id = id
    /\ st[1].pc = "done" /\ id \in st[1].writes
    /\ st[1].snap[id].reserved_by = rsv[1].staff_id
    /\ Free(id)
    /\ \A other \in SlotIds : Free(other)

\* ---------------------------------------------------------------- C21
\* the slots stored as leased to the requester
HeldBy(store, staff_id) == {id \in SlotIds : store[id].reserved_by = staff_id}

\* C21: the claim of an authorized reserve call succeeds whenever a slot is
\* free, however many slots its caller already holds, and adds one slot to
\* those stored with the caller as reserved_by; the call then writes a
\* booking of its own for that slot.
C21_NoPerRequesterLimit ==
  [][\A p \in RsvProcs :
       /\ (ClaimStep(p) /\ \E id \in SlotIds : Free(id)) =>
            /\ rsv'[p].pc = "insert"
            /\ Free(rsv'[p].slot_id)
            /\ HeldBy(slots', rsv[p].staff_id)
                 = HeldBy(slots, rsv[p].staff_id) \cup {rsv'[p].slot_id}
            /\ Cardinality(HeldBy(slots', rsv[p].staff_id))
                 = Cardinality(HeldBy(slots, rsv[p].staff_id)) + 1
       /\ InsertStep(p) =>
            /\ rsv'[p].resp.code = 201
            /\ bookings' = Append(bookings,
                                  Booking(rsv[p].staff_id, rsv[p].user,
                                          rsv[p].slot_id, rsv[p].now))]_vars

C21_Witness ==
  \E p \in RsvProcs :
    /\ rsv[p].resp.code = 201
    /\ HeldBy(slots, rsv[p].staff_id) = SlotIds
    /\ \A id \in SlotIds : Booked(id, slots[id])
    /\ \A id, other \in SlotIds :
         id # other =>
           \E i, j \in 1..Len(bookings) :
             /\ i # j
             /\ bookings[i].slot_id = id /\ bookings[j].slot_id = other
             /\ bookings[i].staff_id = rsv[p].staff_id
             /\ bookings[j].staff_id = rsv[p].staff_id

\* ---------------------------------------------------------------- C22
\* C22: the ledger never holds two bookings of the same slot whose windows
\* [reserved_at, expires_at) overlap.
C22_NoOverlappingBookings ==
  \A i, j \in 1..Len(bookings) :
    (i # j /\ bookings[i].slot_id = bookings[j].slot_id) =>
      \/ bookings[i].expires_at <= bookings[j].reserved_at
      \/ bookings[j].expires_at <= bookings[i].reserved_at

\* ---------------------------------------------------------------- C23
\* C23: in every response of slots_status and of reserve-signal every slot
\* entry has available true if and only if its status is AVAILABLE.
C23_EntrySelfConsistent ==
  \A h \in StProcs :
    st[h].pc \in {"release", "done"} =>
      \A id \in SlotIds :
        st[h].resp[id].available = TRUE <=> st[h].resp[id].status = "AVAILABLE"

\* ---------------------------------------------------------------- C24
\* C24: every entry that a response of either view reports RESERVED has
\* between 1 and 600 whole seconds left, and its countdown lies between
\* 00:01 and 10:00.
C24_RemainingInRange ==
  \A h \in StProcs :
    st[h].pc \in {"release", "done"} =>
      \A id \in SlotIds :
        LET e == st[h].resp[id]
            left == e.time_left_min * 60 + e.time_left_sec
        IN  e.status = "RESERVED" =>
              /\ left >= 1 /\ left <= 600
              /\ left = TotalSeconds(st[h].snap[id].reservation_time, st[h].now)
              /\ e.time_left_sec \in 0..59
              /\ e.time_left_min \in 0..10
              /\ e.countdown = Countdown(e.time_left_min, e.time_left_sec)
              /\ e.countdown # <<0, 0, 0, 0>>
              /\ e.time_left_min = 10 => e.countdown = <<1, 0, 0, 0>>
              /\ st[h].snap[id].reservation_time <= st[h].now

C24_Witness ==
  \E h \in StProcs, p \in RsvProcs, a \in SlotIds :
    /\ st[h].pc \in {"release", "done"}
    /\ rsv[p].pc \in {"insert", "done"} /\ rsv[p].slot_id = a
    /\ rsv[p].now > 0
    /\ st[h].snap[a].reservation_time = rsv[p].now
    /\ st[h].now > rsv[p].now
    /\ st[h].resp[a].status = "RESERVED"
    /\ st[h].resp[a].countdown = <<0, 9, 5, 9>>
====
